---- MODULE Spec2Model ----
(***************************************************************************)
(* eatmi.pl backend + PayU: the payment order lifecycle of server.js.      *)
(* The ESM copy of the server, which uses fetch in place of axios, has the *)
(* same two handlers and the same store; it differs in what its catch      *)
(* block answers, and the variable `impl` says which copy runs.            *)
(*                                                                         *)
(* The server is one Node.js process: every handler runs on the single     *)
(* JavaScript thread and gives it up only at an `await`.  The model keeps  *)
(* that thread as the variable `running`; a handler's synchronous section  *)
(* is split into its store read and its store write so that what happens   *)
(* between the two is something the model decides, not something assumed.  *)
(*                                                                         *)
(* A JavaScript value that may be `undefined` is an option: <<>> when it   *)
(* is absent, <<v>> when it is v.                                          *)
(***************************************************************************)
EXTENDS Integers, Sequences, FiniteSets, TLC

\* ------------------------------------------------------------- bounds
MaxReqs  == 2      \* creation requests (POST /api/payu/order)
MaxHooks == 2      \* webhook handler slots (POST /api/payu/notify), reusable
MaxClock == 1      \* readings of Date.now()
MaxZloty == 33     \* whole zloty of an amount (req.body.total, cart[i].price)
MaxText  == 3      \* characters of customer.email and customer.imieNazwisko
MaxOrders == 2     \* orders of the sandbox order API
MaxConfirms == 2   \* confirmation handler slots of the sandbox order API, reusable

Reqs  == 1..MaxReqs
Hooks == 1..MaxHooks

None    == <<>>
Some(v) == <<v>>

\* ------------------------------------------------------------- inputs
\* status values PayU sends (server.js:191 "np. PENDING / COMPLETED / CANCELED")
Statuses == {"PENDING", "WAITING_FOR_CONFIRMATION", "COMPLETED", "CANCELED"}

\* req.body.cart: missing, empty, or one line item
Carts == {None, Some(<<>>), Some(<<[name |-> "Box 1", price |-> 32, qty |-> 1]>>)}
\* req.body.total: missing, zero, negative, positive
Totals == {None, Some(0), Some(-5), Some(32)}
\* req.body.customer
Customers == {Some([email |-> "a@b.pl"])}

\* orderIds the gateway may name in a notification; 0 is never issued
GwIds == 0..MaxReqs

\* the body of a webhook request: data.orders[0] absent, or {orderId?, status}
Notifications ==
    {[has |-> FALSE, orderId |-> None, status |-> "PENDING"]}
    \cup [has : {TRUE}, orderId : {None} \cup {Some(g) : g \in GwIds}, status : Statuses]

\* the outcome of the OAuth call (getPayuToken)
AuthOutcomes == {"fail", "ok", "okNoToken"}
\* a 2xx answer to the order-creation POST: its body has or lacks
\* redirectUri / orderId (a failure, non-2xx or transport, is CreateFailed)
CreateOutcomes == [redirectUri : BOOLEAN, orderId : BOOLEAN]

VARIABLES
    impl,       \* which copy of the server runs: "axios" (server.js) or "fetch" (the ESM copy)
    file,       \* orders.json: [kind |-> "missing" | "array" | "nonarray", recs |-> the array]
    faults,     \* whether the disk may fail a read or a write in this run
    now,        \* Date.now()
    running,    \* the handler holding the JavaScript thread: <<"idle",0>>, <<"req",r>>, <<"hook",h>>
    req,        \* creation handlers
    hook,       \* webhook handlers
    nextGw,     \* the gateway's next orderId
    orderBody,  \* the amounts of one order body: the total and price it is built from,
                \* and its totalAmount and products[0].unitPrice once built
    sandbox     \* the sandbox order API: SANDBOX_PAYMENTS, the orders collection and
                \* the confirmation handlers

vars == <<impl, file, faults, now, running, req, hook, nextGw, orderBody, sandbox>>

Idle == <<"idle", 0>>

\* ------------------------------------------------------------- the event loop
\* Yields as it would be if the creation handler awaited its store read
\* (fs.promises.readFile) before it pushes and writes
YieldsAtOrderRead == {"idle", "awaitToken", "awaitCreate", "closed", "persist"}

\* Yields as it would be if the store were read with an awaited, asynchronous
\* read: the handler would give the thread up between its read and its write
YieldsAtStoreRead == {"idle", "awaitToken", "awaitCreate", "closed", "persist", "loaded"}

\* The places where a handler is off the JavaScript thread: not started, at an
\* `await` (getPayuToken, the order POST), or returned.  Everywhere else the
\* handler runs synchronously (readFileSync / writeFileSync, res.json) and
\* keeps the thread.
Yields == {"idle", "awaitToken", "awaitCreate", "closed"}

\* handler `who`, standing at `pc`, may take its next step
Turn(who, pc) == IF pc \in Yields THEN running = Idle ELSE running = who

\* who holds the thread once `who` has moved to `pc`
Hold(who, pc) == IF pc \in Yields THEN Idle ELSE who

\* ------------------------------------------------------------- the store
\* readOrders: JSON.parse(readFileSync) or [] when that throws.
\* The result is [arr |-> is it an array, recs |-> its records].
readOrders(f, readThrows) ==
    IF readThrows \/ f.kind = "missing" THEN [arr |-> TRUE, recs |-> <<>>]
    ELSE IF f.kind = "nonarray" THEN [arr |-> FALSE, recs |-> <<>>]
    ELSE [arr |-> TRUE, recs |-> f.recs]

\* saveOrders: writeFileSync(JSON.stringify(orders))
saveOrders(recs) == [kind |-> "array", recs |-> recs]

NoSnap == [arr |-> TRUE, recs |-> <<>>]

\* whether this read or write may throw
MayThrow == IF faults THEN BOOLEAN ELSE {FALSE}

\* findIndex as it would be if a lookup that finds nothing fell back to the
\* first record
findIndexFallsBack(recs, payuOrderId) ==
    IF \E i \in 1..Len(recs) : recs[i].payuOrderId = payuOrderId
    THEN CHOOSE i \in 1..Len(recs) :
            /\ recs[i].payuOrderId = payuOrderId
            /\ \A j \in 1..(i-1) : recs[j].payuOrderId # payuOrderId
    ELSE IF Len(recs) > 0 THEN 1 ELSE 0

\* findIndex((o) => o.payuOrderId === payuOrderId): 0 stands for -1
findIndex(recs, payuOrderId) ==
    IF \E i \in 1..Len(recs) : recs[i].payuOrderId = payuOrderId
    THEN CHOOSE i \in 1..Len(recs) :
            /\ recs[i].payuOrderId = payuOrderId
            /\ \A j \in 1..(i-1) : recs[j].payuOrderId # payuOrderId
    ELSE 0

\* ------------------------------------------------------------- amounts
\* A JavaScript number is an IEEE 754 double.  A finite double is kept here as
\* [neg, man, exp]: the value (-1)^neg * man * 2^exp, where man is a natural
\* number of at most Precision bits.  man does not fit a machine integer of
\* the model, so it is a sequence of limbs, most significant first, in base
\* 2^LimbBits.
Precision == 53
LimbBits  == 15
Base      == 2^LimbBits

\* a decimal amount as JSON carries it: sign and thousandths ("19.99" is 19990)
Decimals == [neg : BOOLEAN, milli : 0..(MaxZloty * 1000 + 999)]

\* n without its leading zero limbs
RECURSIVE Strip(_)
Strip(n) == IF n # <<>> /\ n[1] = 0 THEN Strip(Tail(n)) ELSE n

\* n * c + a, for 0 <= c <= Base and 0 <= a < Base
RECURSIVE MulAdd(_, _, _)
MulAdd(n, c, a) ==
    IF n = <<>>
    THEN IF a = 0 THEN <<>> ELSE <<a>>
    ELSE LET k == Len(n)
             v == n[k] * c + a
         IN  Append(MulAdd(SubSeq(n, 1, k - 1), c, v \div Base), v % Base)

\* n divided by c, for 0 < c <= Base: [q |-> quotient, r |-> remainder]
RECURSIVE DivMod(_, _)
DivMod(n, c) ==
    IF n = <<>>
    THEN [q |-> <<>>, r |-> 0]
    ELSE LET k   == Len(n)
             p   == DivMod(SubSeq(n, 1, k - 1), c)
             cur == p.r * Base + n[k]
         IN  [q |-> Append(p.q, cur \div c), r |-> cur % c]

\* n * 2^k
RECURSIVE Shl(_, _)
Shl(n, k) == IF k >= LimbBits THEN Shl(Append(n, 0), k - LimbBits) ELSE MulAdd(n, 2^k, 0)

\* n divided by 2^k: [q |-> quotient, lost |-> whether the remainder is not 0]
RECURSIVE Shr(_, _)
Shr(n, k) ==
    IF n = <<>> THEN [q |-> <<>>, lost |-> FALSE]
    ELSE IF k >= LimbBits
    THEN LET p == Shr(SubSeq(n, 1, Len(n) - 1), k - LimbBits)
         IN  [q |-> p.q, lost |-> p.lost \/ n[Len(n)] # 0]
    ELSE LET d == DivMod(n, 2^k) IN [q |-> d.q, lost |-> d.r # 0]

\* the number of bits of n
BitLen(n) ==
    LET s == Strip(n)
    IN  IF s = <<>> THEN 0
        ELSE (Len(s) - 1) * LimbBits + (CHOOSE b \in 1..LimbBits : 2^(b-1) <= s[1] /\ s[1] < 2^b)

\* a natural number below Base^2 as limbs, and back
ToLimbs(v) == Strip(<<v \div Base, v % Base>>)

RECURSIVE ToInt(_)
ToInt(n) == IF n = <<>> THEN 0 ELSE ToInt(SubSeq(n, 1, Len(n) - 1)) * Base + n[Len(n)]

\* q, or q + 1, as round-to-nearest-even decides from the remainder r of a
\* division by c
RoundEven(q, r, c) ==
    LET last == IF q = <<>> THEN 0 ELSE q[Len(q)]
    IN  IF 2 * r > c \/ (2 * r = c /\ last % 2 = 1) THEN MulAdd(q, 1, 1) ELSE q

\* man * 2^exp cut to Precision bits, round-to-nearest-even
RoundToDouble(neg, man, exp) ==
    LET t == BitLen(man) - Precision
    IN  IF t <= 0 THEN [neg |-> neg, man |-> Strip(man), exp |-> exp]
        ELSE LET d == DivMod(man, 2^t)
             IN  [neg |-> neg, man |-> Strip(RoundEven(d.q, d.r, 2^t)), exp |-> exp + t]

\* the k for which 2^k <= milli/1000 < 2^(k+1), milli > 0
Log2(milli) ==
    IF milli >= 1000
    THEN CHOOSE k \in 0..20 : 2^k * 1000 <= milli /\ milli < 2^(k+1) * 1000
    ELSE - (CHOOSE k \in 1..10 : milli * 2^k >= 1000 /\ milli * 2^(k-1) < 1000)

\* JSON.parse of the number literal: the double nearest to milli/1000
ParseNumber(d) ==
    IF d.milli = 0 THEN [neg |-> d.neg, man |-> <<>>, exp |-> 0]
    ELSE LET s == Precision - 1 - Log2(d.milli)
             q == DivMod(Shl(ToLimbs(d.milli), s), 1000)
         IN  [neg |-> d.neg, man |-> Strip(RoundEven(q.q, q.r, 1000)), exp |-> -s]

\* x * 100: the exact product, rounded to a double
Times100(x) == RoundToDouble(x.neg, MulAdd(x.man, 100, 0), x.exp)

\* Math.round as it would be if the fraction were cut off (Math.trunc)
MathTrunc(x) ==
    LET v == ToInt(Shr(x.man, -x.exp).q)
    IN  IF x.neg THEN -v ELSE v

\* Math.round(x) for |x| < 2^30 with a fraction part (exp < 0): the nearest
\* integer, a tie going towards +Infinity
MathRound(x) ==
    LET h == Shr(x.man, -x.exp - 1)      \* twice the magnitude, cut: 2*int + first fraction bit
        v == ToInt(h.q)
    IN  IF x.man = <<>> THEN 0
        ELSE IF ~x.neg THEN (v + 1) \div 2
        ELSE - ((v \div 2) + (IF v % 2 = 1 /\ h.lost THEN 1 ELSE 0))

\* String(n) for an integer n: its decimal digits, "-" first when n < 0
RECURSIVE Digits(_)
Digits(n) ==
    LET c == <<"0", "1", "2", "3", "4", "5", "6", "7", "8", "9">>[(n % 10) + 1]
    IN  IF n < 10 THEN <<c>> ELSE Append(Digits(n \div 10), c)

String(n) == IF n < 0 THEN <<"-">> \o Digits(-n) ELSE Digits(n)

\* String(Math.round(total * 100))
MinorUnits(d) == String(MathRound(Times100(ParseNumber(d))))

\* ------------------------------------------------------------- buyer
\* A JavaScript string is the sequence of its characters; a letter and the
\* space are the characters told apart here.
Chars == {"a", " "}
Texts == UNION {[1..k -> Chars] : k \in 0..MaxText}

\* req.body.customer: missing, or an object whose email and imieNazwisko are
\* each missing or a string
CustomerInputs ==
    {None} \cup {Some(c) : c \in [email        : {None} \cup {Some(t) : t \in Texts},
                                   imieNazwisko : {None} \cup {Some(t) : t \in Texts}]}

\* the placeholders, each kept whole as one symbol
PlaceholderEmail == <<"klient@eatmi.pl">>
DefaultFirstName == <<"Klient">>
DefaultLastName  == <<"Eatmi">>

\* customer?.email, customer?.imieNazwisko
EmailOf(customer) == IF customer = None THEN None ELSE customer[1].email
NameOf(customer)  == IF customer = None THEN None ELSE customer[1].imieNazwisko

\* x || d for an x that is undefined or a string: d when x is undefined or ""
OrElse(x, d) == IF x = None \/ x[1] = <<>> THEN d ELSE x[1]

\* s.split(" ")
RECURSIVE Split(_)
Split(s) ==
    IF \A i \in 1..Len(s) : s[i] # " "
    THEN <<s>>
    ELSE LET i == CHOOSE j \in 1..Len(s) : s[j] = " " /\ \A k \in 1..(j-1) : s[k] # " "
         IN  <<SubSeq(s, 1, i - 1)>> \o Split(SubSeq(s, i + 1, Len(s)))

\* parts.join(" ")
RECURSIVE Join(_)
Join(parts) ==
    IF parts = <<>> THEN <<>>
    ELSE IF Len(parts) = 1 THEN parts[1]
    ELSE parts[1] \o <<" ">> \o Join(Tail(parts))

\* orderBody.buyer: email, firstName, lastName (server.js:123-132)
Buyer(customer) ==
    LET parts == Split(OrElse(NameOf(customer), <<>>))
    IN  [email     |-> OrElse(EmailOf(customer), PlaceholderEmail),
         firstName |-> OrElse(Some(parts[1]), DefaultFirstName),
         lastName  |-> OrElse(Some(Join(Tail(parts))), DefaultLastName)]

\* the order body before it is built
NoBody == [total |-> None, price |-> None, customer |-> None,
           totalAmount |-> None, unitPrice |-> None, buyer |-> None]

\* orderBody = { ..., totalAmount, buyer, products: cart.map(...), ... } for a
\* cart of one item
BuildOrderBody ==
    /\ orderBody.total # None
    /\ orderBody.totalAmount = None
    /\ orderBody' = [orderBody EXCEPT !.totalAmount = Some(MinorUnits(orderBody.total[1])),
                                      !.unitPrice = Some(MinorUnits(orderBody.price[1])),
                                      !.buyer = Some(Buyer(orderBody.customer))]
    /\ UNCHANGED <<impl, file, faults, now, running, req, hook, nextGw, sandbox>>

\* ------------------------------------------------------------- creation
\* a creation handler: where it stands, what it holds, and what it has done
\* (auth, create: the outcome of each gateway call; authCalls, createCalls,
\* writes: how many of each it has issued; resp, body: the status it answered
\* and the message in the answer's body;
\* sent: the order POST as dispatched; answer: the body of the 200;
\* before: orders.json as it was when the handler's current turn began)
ReqInit ==
    [pc |-> "idle", cart |-> None, total |-> None, customer |-> None,
     auth |-> "none", create |-> "none", localOrderId |-> None,
     payuOrderId |-> None, redirectUri |-> FALSE, snap |-> NoSnap,
     before |-> [kind |-> "missing", recs |-> <<>>],
     resp |-> 0, body |-> "", writes |-> 0, authCalls |-> 0, createCalls |-> 0,
     sent |-> None, answer |-> None]

ReqClosed == [ReqInit EXCEPT !.pc = "closed"]

\* if (!cart?.length || !total) return 400
Invalid(cart, total) ==
    \/ cart = None
    \/ Len(cart[1]) = 0
    \/ total = None
    \/ total[1] = 0

\* the statuses the creation handler answers with
BadRequest  == 400
CreateError == 500
Created     == 200

\* how a gateway call fails: a non-2xx answer, or no answer at all
FailKinds == {"status", "transport"}

\* the message of the error that reaches the catch block when a gateway call
\* fails.  The fetch copy puts the text of the gateway's answer into it; axios
\* keeps that text in err.response.data and its message names the status only.
TokenErrorMessage(kind) ==
    IF kind = "transport" THEN (IF impl = "fetch" THEN "fetch failed" ELSE "Network Error")
    ELSE IF impl = "fetch" THEN "PayU token error: <gateway body>"
    ELSE "Request failed with status code"

CreateErrorMessage(kind) ==
    IF kind = "transport" THEN (IF impl = "fetch" THEN "fetch failed" ELSE "Network Error")
    ELSE IF impl = "fetch" THEN "PayU create order error: <gateway body>"
    ELSE "Request failed with status code"

\* the messages that carry the text of a gateway answer
GatewayDetail == {"PayU token error: <gateway body>", "PayU create order error: <gateway body>"}

ValidationMessage == "Brak koszyka lub kwoty."
GenericMessage    == "PayU create order failed."

\* the body of the 500 the catch block answers with: { error: ... }
errorBody(message) == IF impl = "axios" THEN GenericMessage ELSE message

\* the handler starts: validation, then the OAuth call is dispatched
\* (requests are numbered in the order they arrive)
OrderReceive(r) ==
    /\ req[r].pc = "idle"
    /\ \A q \in Reqs : q < r => req[q].pc # "idle"
    /\ Turn(<<"req", r>>, "idle")
    /\ \E cart \in Carts, total \in Totals, customer \in Customers :
          IF Invalid(cart, total)
          THEN /\ req' = [req EXCEPT ![r].pc = "done", ![r].resp = BadRequest,
                                     ![r].body = ValidationMessage,
                                     ![r].before = file,
                                     ![r].cart = cart, ![r].total = total,
                                     ![r].customer = customer]
               /\ running' = Hold(<<"req", r>>, "done")
          ELSE /\ req' = [req EXCEPT ![r].pc = "awaitToken", ![r].cart = cart,
                                     ![r].total = total, ![r].customer = customer,
                                     ![r].authCalls = @ + 1]
               /\ running' = Hold(<<"req", r>>, "awaitToken")
    /\ UNCHANGED <<impl, file, faults, now, hook, nextGw, orderBody, sandbox>>

\* "EATMI-" + Date.now()
LocalOrderId(t) == Some(t)

\* req.body.total, a whole number of zloty here, as the decimal it is parsed from
ToDecimal(t) == [neg |-> t < 0, milli |-> (IF t < 0 THEN -t ELSE t) * 1000]

\* the fields of orderBody the gateway correlates and charges by
\* (server.js:107-142), in the order the object literal lists them
OrderBodyKeys == <<"currencyCode", "totalAmount", "externalOrderId">>

OrderBodyOf(localOrderId, total) ==
    [currencyCode    |-> "PLN",
     totalAmount     |-> MinorUnits(ToDecimal(total[1])),
     externalOrderId |-> localOrderId]

\* JSON.stringify(body): the members of the object, in the object's key order
JSONstringify(body) == [i \in 1..Len(OrderBodyKeys) |-> <<OrderBodyKeys[i], body[OrderBodyKeys[i]]>>]

\* crypto.createHash("md5").update(text).digest("hex"): a digest stands for
\* the text it was taken of
md5(text) == <<"md5", text>>

\* makeSignature as it would be if it serialized a copy of the body that
\* lacks the externalOrderId
makeSignatureOfCopy(body) ==
    [sender    |-> "PAYU_POS_ID",
     signature |-> md5(Append(SubSeq(JSONstringify(body), 1, Len(OrderBodyKeys) - 1), "PAYU_MD5")),
     algorithm |-> "MD5"]

\* makeSignature(body): md5 over JSON.stringify(body) + PAYU_MD5
makeSignature(body) ==
    [sender    |-> "PAYU_POS_ID",
     signature |-> md5(Append(JSONstringify(body), "PAYU_MD5")),
     algorithm |-> "MD5"]

\* the order POST: sig = makeSignature(orderBody), then axios.post(url,
\* orderBody, headers), which puts JSON.stringify(orderBody) on the wire (the
\* fetch copy passes body: JSON.stringify(orderBody) itself)
PostOrder(localOrderId, total) ==
    LET body == OrderBodyOf(localOrderId, total)
    IN  [body      |-> body,
         signature |-> makeSignature(body),
         data      |-> JSONstringify(body)]

\* TokenReturn as it would be if a rejected getPayuToken were tried once more
\* before the handler gives up
TokenReturnRetries(r) ==
    /\ req[r].pc = "awaitToken"
    /\ Turn(<<"req", r>>, "awaitToken")
    /\ \E out \in AuthOutcomes, kind \in FailKinds :
          IF out = "fail" /\ req[r].authCalls < 2
          THEN /\ req' = [req EXCEPT ![r].authCalls = @ + 1]
               /\ running' = Hold(<<"req", r>>, "awaitToken")
          ELSE IF out = "fail"
          THEN /\ req' = [req EXCEPT ![r].pc = "done", ![r].resp = CreateError,
                                     ![r].body = errorBody(TokenErrorMessage(kind)),
                                     ![r].auth = out, ![r].before = file]
               /\ running' = Hold(<<"req", r>>, "done")
          ELSE /\ req' = [req EXCEPT ![r].pc = "awaitCreate", ![r].auth = out,
                                     ![r].localOrderId = LocalOrderId(now),
                                     ![r].sent = Some(PostOrder(LocalOrderId(now), req[r].total)),
                                     ![r].createCalls = @ + 1]
               /\ running' = Hold(<<"req", r>>, "awaitCreate")
    /\ UNCHANGED <<impl, file, faults, now, hook, nextGw, orderBody, sandbox>>

\* getPayuToken resolves or rejects; on success the body is built, signed and posted
TokenReturn(r) ==
    /\ req[r].pc = "awaitToken"
    /\ Turn(<<"req", r>>, "awaitToken")
    /\ \E out \in AuthOutcomes, kind \in FailKinds :
          IF out = "fail"
          THEN /\ req' = [req EXCEPT ![r].pc = "done", ![r].resp = CreateError,
                                     ![r].body = errorBody(TokenErrorMessage(kind)),
                                     ![r].auth = out, ![r].before = file]
               /\ running' = Hold(<<"req", r>>, "done")
          ELSE /\ req' = [req EXCEPT ![r].pc = "awaitCreate", ![r].auth = out,
                                     ![r].localOrderId = LocalOrderId(now),
                                     ![r].sent = Some(PostOrder(LocalOrderId(now), req[r].total)),
                                     ![r].createCalls = @ + 1]
               /\ running' = Hold(<<"req", r>>, "awaitCreate")
    /\ UNCHANGED <<impl, file, faults, now, hook, nextGw, orderBody, sandbox>>

\* NewOrder as it would be if the record took a local identifier of its own
\* at the time it is stored
NewOrderFreshId(k, t) ==
    [localOrderId |-> LocalOrderId(t),
     payuOrderId  |-> k.payuOrderId,
     status       |-> "PENDING",
     total        |-> k.total,
     cart         |-> k.cart,
     customer     |-> k.customer,
     createdAt    |-> Some(t),
     updatedAt    |-> None,
     paidAt       |-> None,
     amountMinorUnits |-> None]

\* the record pushed at server.js:163-171; the literal has no updatedAt, no
\* paidAt and no amountMinorUnits
NewOrder(k, t) ==
    [localOrderId |-> k.localOrderId,
     payuOrderId  |-> k.payuOrderId,
     status       |-> "PENDING",
     total        |-> k.total,
     cart         |-> k.cart,
     customer     |-> k.customer,
     createdAt    |-> Some(t),
     updatedAt    |-> None,
     paidAt       |-> None,
     amountMinorUnits |-> None]

\* CreateFailed as it would be if the record were stored before the gateway
\* answered: the failure leaves an orphan behind
CreateFailedOrphan(r) ==
    /\ req[r].pc = "awaitCreate"
    /\ Turn(<<"req", r>>, "awaitCreate")
    /\ \E kind \in FailKinds :
          req' = [req EXCEPT ![r].pc = "done", ![r].resp = CreateError,
                             ![r].body = errorBody(CreateErrorMessage(kind)),
                             ![r].create = "fail", ![r].before = file]
    /\ file' = saveOrders(Append(readOrders(file, FALSE).recs, NewOrder(req[r], now)))
    /\ running' = Hold(<<"req", r>>, "done")
    /\ UNCHANGED <<impl, faults, now, hook, nextGw, orderBody, sandbox>>

\* the order-creation POST rejects (non-2xx or transport): the catch block
CreateFailed(r) ==
    /\ req[r].pc = "awaitCreate"
    /\ Turn(<<"req", r>>, "awaitCreate")
    /\ \E kind \in FailKinds :
          req' = [req EXCEPT ![r].pc = "done", ![r].resp = CreateError,
                             ![r].body = errorBody(CreateErrorMessage(kind)),
                             ![r].create = "fail", ![r].before = file]
    /\ running' = Hold(<<"req", r>>, "done")
    /\ UNCHANGED <<impl, file, faults, now, hook, nextGw, orderBody, sandbox>>

\* the order-creation POST resolves with a 2xx: the fields are extracted and
\* the store is read
CreateReturn(r) ==
    /\ req[r].pc = "awaitCreate"
    /\ Turn(<<"req", r>>, "awaitCreate")
    /\ \E out \in CreateOutcomes, readThrows \in MayThrow :
          req' = [req EXCEPT ![r].pc = "persist", ![r].create = "ok",
                             ![r].redirectUri = out.redirectUri,
                             ![r].payuOrderId = IF out.orderId THEN Some(nextGw) ELSE None,
                             ![r].snap = readOrders(file, readThrows),
                             ![r].before = file]
    /\ nextGw' = nextGw + 1
    /\ running' = Hold(<<"req", r>>, "persist")
    /\ UNCHANGED <<impl, file, faults, now, hook, orderBody, sandbox>>

\* orders.push(...); saveOrders(orders); res.json(...)  -- or the catch block
OrderPersist(r) ==
    /\ req[r].pc = "persist"
    /\ Turn(<<"req", r>>, "persist")
    /\ \E writeThrows \in MayThrow :
          IF ~req[r].snap.arr
          THEN \* orders.push is not a function
               /\ req' = [req EXCEPT ![r].pc = "done", ![r].resp = CreateError,
                                     ![r].body = errorBody("orders.push is not a function")]
               /\ UNCHANGED file
          ELSE IF writeThrows
          THEN /\ req' = [req EXCEPT ![r].pc = "done", ![r].resp = CreateError,
                                     ![r].body = errorBody("write failed"),
                                     ![r].writes = @ + 1]
               /\ UNCHANGED file
          ELSE /\ req' = [req EXCEPT ![r].pc = "done", ![r].resp = Created,
                                     ![r].body = "order",
                                     ![r].answer = Some([redirectUri  |-> req[r].redirectUri,
                                                         localOrderId |-> req[r].localOrderId,
                                                         payuOrderId  |-> req[r].payuOrderId]),
                                     ![r].writes = @ + 1]
               /\ file' = saveOrders(Append(req[r].snap.recs, NewOrder(req[r], now)))
    /\ running' = Hold(<<"req", r>>, "done")
    /\ UNCHANGED <<impl, faults, now, hook, nextGw, orderBody, sandbox>>

\* the handler returns after it has answered
OrderReturn(r) ==
    /\ req[r].pc = "done"
    /\ Turn(<<"req", r>>, "done")
    /\ req' = [req EXCEPT ![r] = ReqClosed]
    /\ running' = Hold(<<"req", r>>, "closed")
    /\ UNCHANGED <<impl, file, faults, now, hook, nextGw, orderBody, sandbox>>

\* ------------------------------------------------------------- webhook
NoRecord == [has |-> FALSE, orderId |-> None, status |-> "PENDING"]

\* a webhook handler: the notification it handles, the store it read, the index
\* it found, and what it has done (resp, err: an exception reached the catch
\* block; writes: saveOrders calls; before: orders.json as it was when the
\* handler began)
HookInit ==
    [pc |-> "idle", n |-> NoRecord, snap |-> NoSnap, idx |-> 0,
     before |-> [kind |-> "missing", recs |-> <<>>],
     resp |-> 0, err |-> FALSE, writes |-> 0]

\* res.sendStatus(200) at the end of the try block
NotifyOk == 200

\* the catch block as it would be if it reported the failure to the gateway
NotifyCatchReports == CreateError

\* res.sendStatus(200) in the catch block
NotifyCatch == 200

\* setStatus as it would be if a repeated status were taken for a reset
setStatusResetsRepeat(recs, idx, status, t) ==
    [recs EXCEPT ![idx].status = IF @ = status THEN "PENDING" ELSE status,
                 ![idx].updatedAt = Some(t)]

\* setStatus as it would be if the matched order were replaced by what the
\* notification carries
setStatusReplacesOrder(recs, idx, status, t) ==
    [recs EXCEPT ![idx] = [@ EXCEPT !.status = status, !.updatedAt = Some(t),
                                    !.cart = None, !.customer = None]]

\* setStatus as it would be if the status were stored without a new updatedAt
setStatusKeepsTime(recs, idx, status, t) ==
    [recs EXCEPT ![idx].status = status]

\* orders[idx].status = status; orders[idx].updatedAt = new Date().toISOString()
setStatus(recs, idx, status, t) ==
    [recs EXCEPT ![idx].status = status, ![idx].updatedAt = Some(t)]

\* the handler starts: data?.orders?.[0], then readOrders and findIndex
\* (of the free slots the lowest serves the request)
NotifyReceive(h) ==
    /\ hook[h].pc = "idle"
    /\ \A g \in Hooks : g < h => hook[g].pc # "idle"
    /\ Turn(<<"hook", h>>, "idle")
    /\ \E n \in Notifications, readThrows \in MayThrow :
          LET snap == readOrders(file, readThrows) IN
          IF ~n.has
          THEN \* if (!order) return res.sendStatus(200)
               /\ hook' = [hook EXCEPT ![h].pc = "done", ![h].n = n, ![h].before = file,
                                       ![h].resp = NotifyOk]
               /\ running' = Hold(<<"hook", h>>, "done")
          ELSE IF ~snap.arr
          THEN \* orders.findIndex is not a function: the catch block
               /\ hook' = [hook EXCEPT ![h].pc = "done", ![h].n = n, ![h].snap = snap,
                                       ![h].before = file,
                                       ![h].resp = NotifyCatch, ![h].err = TRUE]
               /\ running' = Hold(<<"hook", h>>, "done")
          ELSE /\ hook' = [hook EXCEPT ![h].pc = "loaded", ![h].n = n, ![h].snap = snap,
                                       ![h].before = file,
                                       ![h].idx = findIndex(snap.recs, n.orderId)]
               /\ running' = Hold(<<"hook", h>>, "loaded")
    /\ UNCHANGED <<impl, file, faults, now, req, nextGw, orderBody, sandbox>>

\* if (idx !== -1) { set status and updatedAt; saveOrders }; res.sendStatus(200)
NotifyApply(h) ==
    /\ hook[h].pc = "loaded"
    /\ Turn(<<"hook", h>>, "loaded")
    /\ \E writeThrows \in MayThrow :
          LET k == hook[h] IN
          IF k.idx = 0
          THEN /\ hook' = [hook EXCEPT ![h].pc = "done", ![h].resp = NotifyOk]
               /\ UNCHANGED file
          ELSE IF writeThrows
          THEN /\ hook' = [hook EXCEPT ![h].pc = "done", ![h].resp = NotifyCatch,
                                       ![h].err = TRUE, ![h].writes = @ + 1]
               /\ UNCHANGED file
          ELSE /\ hook' = [hook EXCEPT ![h].pc = "done", ![h].resp = NotifyOk,
                                       ![h].writes = @ + 1]
               /\ file' = saveOrders(setStatus(k.snap.recs, k.idx, k.n.status, now))
    /\ running' = Hold(<<"hook", h>>, "done")
    /\ UNCHANGED <<impl, faults, now, req, nextGw, orderBody, sandbox>>

\* the handler returns after it has answered; its slot serves the next request
NotifyReturn(h) ==
    /\ hook[h].pc = "done"
    /\ Turn(<<"hook", h>>, "done")
    /\ hook' = [hook EXCEPT ![h] = HookInit]
    /\ running' = Hold(<<"hook", h>>, "idle")
    /\ UNCHANGED <<impl, file, faults, now, req, nextGw, orderBody, sandbox>>

\* the whole handler on store f at time t when the disk does not fail:
\* the store it leaves behind
handleNotification(f, n, t) ==
    IF ~n.has THEN f
    ELSE LET snap == readOrders(f, FALSE) IN
         IF ~snap.arr THEN f
         ELSE LET idx == findIndex(snap.recs, n.orderId) IN
              IF idx = 0 THEN f
              ELSE saveOrders(setStatus(snap.recs, idx, n.status, t))

\* ------------------------------------------------------------- sandbox order API
\* (the Railway backend of src/unnamed/part_001: orders are Mongoose documents)
Confirms == 1..MaxConfirms

\* process.env.SANDBOX_PAYMENTS: unset, or a string
SandboxEnvs == {None, Some("true"), Some("TRUE"), Some("false"), Some("")}

\* s.toLowerCase(), on the strings above
toLowerCase(s) == IF s = "TRUE" THEN "true" ELSE s

\* String(process.env.SANDBOX_PAYMENTS ?? 'true').toLowerCase() === 'true'
paidBySandbox(env) == toLowerCase(IF env = None THEN "true" ELSE env[1]) = "true"

\* req.params.orderId: a string that is a well-formed ObjectId (the _id of
\* order n; n = 0 is the _id of no order) or one that is not
OrderIdParams == {[wellFormed |-> FALSE, n |-> 0]} \cup [wellFormed : {TRUE}, n : 0..MaxOrders]

\* a confirmation handler: the id it was called with, whether findById found
\* the order, and the status it answered
ConfirmInit == [pc |-> "idle", id |-> [wellFormed |-> TRUE, n |-> 0], found |-> FALSE, resp |-> 0]

NoSandbox == [env |-> None, orders |-> <<>>, conf |-> [c \in Confirms |-> ConfirmInit]]

\* the statuses the sandbox handlers answer with
SandboxOk       == 200
SandboxBad      == 400
SandboxNotFound == 404
SandboxError    == 500

\* Order.create({ ..., status, payment }) at part_001:732-753
NewSandboxOrder(paid, t) ==
    [status  |-> IF paid THEN "paid" ELSE "pending",
     payment |-> [provider |-> "SANDBOX", paidAt |-> IF paid THEN Some(t) ELSE None]]

\* POST /api/orders: Joi validation, then Order.create
SandboxCreate ==
    /\ \E valid \in BOOLEAN :
          IF ~valid
          THEN UNCHANGED sandbox
          ELSE /\ Len(sandbox.orders) < MaxOrders
               /\ sandbox' = [sandbox EXCEPT !.orders =
                                 Append(@, NewSandboxOrder(paidBySandbox(sandbox.env), now))]
    /\ UNCHANGED <<impl, file, faults, now, running, req, hook, nextGw, orderBody>>

\* POST /api/payments/sandbox/confirm/:orderId, up to the answer of findById:
\* an id that is no ObjectId makes findById reject with a CastError, which
\* wrap() hands to the error middleware (500 'Server error'); null is
\* answered 404
ConfirmFind(c) ==
    /\ sandbox.conf[c].pc = "idle"
    /\ \A b \in Confirms : b < c => sandbox.conf[b].pc # "idle"
    /\ \E id \in OrderIdParams :
          IF ~id.wellFormed
          THEN sandbox' = [sandbox EXCEPT !.conf[c] = [pc |-> "done", id |-> id,
                                                         found |-> FALSE, resp |-> SandboxError]]
          ELSE IF id.n \notin 1..Len(sandbox.orders)
          THEN sandbox' = [sandbox EXCEPT !.conf[c] = [pc |-> "done", id |-> id,
                                                         found |-> FALSE, resp |-> SandboxNotFound]]
          ELSE sandbox' = [sandbox EXCEPT !.conf[c] = [pc |-> "found", id |-> id,
                                                         found |-> TRUE, resp |-> 0]]
    /\ UNCHANGED <<impl, file, faults, now, running, req, hook, nextGw, orderBody>>

\* o.status = 'paid'; o.payment = {..., paidAt: new Date()}; await o.save():
\* one update of the document, or a rejection that leaves it as it was
ConfirmSave(c) ==
    /\ sandbox.conf[c].pc = "found"
    /\ \E saveFails \in BOOLEAN :
          IF saveFails
          THEN sandbox' = [sandbox EXCEPT !.conf[c].pc = "done", !.conf[c].resp = SandboxError]
          ELSE sandbox' = [sandbox EXCEPT !.conf[c].pc = "done", !.conf[c].resp = SandboxOk,
                                          !.orders[sandbox.conf[c].id.n].status = "paid",
                                          !.orders[sandbox.conf[c].id.n].payment =
                                              [provider |-> "SANDBOX", paidAt |-> Some(now)]]
    /\ UNCHANGED <<impl, file, faults, now, running, req, hook, nextGw, orderBody>>

\* the handler has answered; its slot serves the next request
ConfirmReturn(c) ==
    /\ sandbox.conf[c].pc = "done"
    /\ sandbox' = [sandbox EXCEPT !.conf[c] = ConfirmInit]
    /\ UNCHANGED <<impl, file, faults, now, running, req, hook, nextGw, orderBody>>

\* ------------------------------------------------------------- environment
\* the clock advances
Tick ==
    /\ now < MaxClock
    /\ now' = now + 1
    /\ UNCHANGED <<impl, file, faults, running, req, hook, nextGw, orderBody, sandbox>>

\* ------------------------------------------------------------- specification
NoFile == [kind |-> "missing", recs |-> <<>>]

Init ==
    /\ impl = "axios"
    /\ file = NoFile
    /\ faults = FALSE
    /\ now = 0
    /\ running = Idle
    /\ req = [r \in Reqs |-> ReqInit]
    /\ hook = [h \in Hooks |-> HookInit]
    /\ nextGw = 1
    /\ sandbox = NoSandbox
    /\ orderBody = NoBody

\* the same server on a disk that may fail, or next to an orders.json that
\* holds valid JSON that is no array
InitFaults ==
    /\ impl = "axios"
    /\ file \in {NoFile, [kind |-> "nonarray", recs |-> <<>>]}
    /\ faults = TRUE
    /\ now = 0
    /\ running = Idle
    /\ req = [r \in Reqs |-> ReqInit]
    /\ hook = [h \in Hooks |-> HookInit]
    /\ nextGw = 1
    /\ sandbox = NoSandbox
    /\ orderBody = NoBody

Next ==
    \/ \E r \in Reqs : OrderReceive(r)
    \/ \E r \in Reqs : TokenReturn(r)
    \/ \E r \in Reqs : CreateFailed(r)
    \/ \E r \in Reqs : CreateReturn(r)
    \/ \E r \in Reqs : OrderPersist(r)
    \/ \E r \in Reqs : OrderReturn(r)
    \/ \E h \in Hooks : NotifyReceive(h)
    \/ \E h \in Hooks : NotifyApply(h)
    \/ \E h \in Hooks : NotifyReturn(h)
    \/ Tick

Spec == Init /\ [][Next]_vars

\* the ESM copy of the server (fetch in place of axios) on a healthy disk
InitFetch ==
    /\ impl = "fetch"
    /\ file = NoFile
    /\ faults = FALSE
    /\ now = 0
    /\ running = Idle
    /\ req = [r \in Reqs |-> ReqInit]
    /\ hook = [h \in Hooks |-> HookInit]
    /\ nextGw = 1
    /\ sandbox = NoSandbox
    /\ orderBody = NoBody

SpecFetch == InitFetch /\ [][Next]_vars

SpecFaults == InitFaults /\ [][Next]_vars

\* The server with the fairness its event loop gives: a handler that holds the
\* thread runs on to its next await or to its return.  Nothing is promised
\* about the gateway (TokenReturn, CreateFailed and CreateReturn happen when
\* the gateway answers or the connection breaks, which may be never), about
\* the arrival of requests, or about the clock.
Fairness ==
    /\ \A r \in Reqs : WF_vars(OrderPersist(r)) /\ WF_vars(OrderReturn(r))
    /\ \A h \in Hooks : WF_vars(NotifyApply(h)) /\ WF_vars(NotifyReturn(h))

SpecLive == Init /\ [][Next]_vars /\ Fairness

\* the amounts of the order body alone: a request for one item, which is the
\* whole order, at any amount of up to three decimal places
InitAmounts ==
    /\ impl \in {"axios", "fetch"}
    /\ file = NoFile
    /\ faults = FALSE
    /\ now = 0
    /\ running = Idle
    /\ req = [r \in Reqs |-> ReqInit]
    /\ hook = [h \in Hooks |-> HookInit]
    /\ nextGw = 1
    /\ sandbox = NoSandbox
    /\ \E d \in Decimals :
          orderBody = [NoBody EXCEPT !.total = Some(d), !.price = Some(d)]

NextAmounts == BuildOrderBody

SpecAmounts == InitAmounts /\ [][NextAmounts]_vars

\* the buyer of the order body alone: a request for one item at 32 zloty from
\* any customer
InitBuyer ==
    /\ impl \in {"axios", "fetch"}
    /\ file = NoFile
    /\ faults = FALSE
    /\ now = 0
    /\ running = Idle
    /\ req = [r \in Reqs |-> ReqInit]
    /\ hook = [h \in Hooks |-> HookInit]
    /\ nextGw = 1
    /\ sandbox = NoSandbox
    /\ \E c \in CustomerInputs :
          orderBody = [NoBody EXCEPT !.total = Some(ToDecimal(32)),
                                     !.price = Some(ToDecimal(32)),
                                     !.customer = c]

SpecBuyer == InitBuyer /\ [][NextAmounts]_vars

\* the sandbox order API alone, under any setting of SANDBOX_PAYMENTS
InitSandbox ==
    /\ impl = "fetch"
    /\ file = NoFile
    /\ faults = FALSE
    /\ now = 0
    /\ running = Idle
    /\ req = [r \in Reqs |-> ReqInit]
    /\ hook = [h \in Hooks |-> HookInit]
    /\ nextGw = 1
    /\ orderBody = NoBody
    /\ \E env \in SandboxEnvs : sandbox = [NoSandbox EXCEPT !.env = env]

NextSandbox ==
    \/ SandboxCreate
    \/ \E c \in Confirms : ConfirmFind(c)
    \/ \E c \in Confirms : ConfirmSave(c)
    \/ \E c \in Confirms : ConfirmReturn(c)
    \/ Tick

SpecSandbox == InitSandbox /\ [][NextSandbox]_vars

\* ------------------------------------------------------------- claims
Recs == file.recs

\* the creation request of handler r had a non-empty cart and a positive total
ValidRequest(k) ==
    /\ k.cart # None /\ Len(k.cart[1]) > 0
    /\ k.total # None /\ k.total[1] > 0

\* both gateway calls of handler r returned success
GatewayOk(k) == k.auth \in {"ok", "okNoToken"} /\ k.create = "ok"

\* C1: when a valid creation request has been answered after both gateway
\* calls succeeded, the store holds exactly one record with the request's
\* localOrderId, and that record is PENDING with a payuOrderId.
C1_OneRecordPendingWithGatewayId ==
    \A r \in Reqs :
        (req[r].pc = "done" /\ ValidRequest(req[r]) /\ GatewayOk(req[r])) =>
            /\ file.kind = "array"
            /\ Cardinality({i \in 1..Len(Recs) :
                               Recs[i].localOrderId = req[r].localOrderId}) = 1
            /\ \A i \in 1..Len(Recs) :
                  Recs[i].localOrderId = req[r].localOrderId =>
                      /\ Recs[i].status = "PENDING"
                      /\ Recs[i].payuOrderId # None

\* the gateway call of handler r failed
GatewayFailed(k) == k.auth = "fail" \/ k.create = "fail"

\* C2: a creation request whose auth call or order-creation call failed is
\* answered 500 and its handler has left orders.json as it was and called
\* saveOrders not once.
C2_FailedCreationLeavesNoOrphan ==
    \A r \in Reqs :
        (req[r].pc = "done" /\ GatewayFailed(req[r])) =>
            /\ req[r].resp = 500
            /\ req[r].writes = 0
            /\ file = req[r].before

\* C2 witness: a request answered after its order-creation POST failed, next
\* to a store that already holds a record.
C2_Witness ==
    \E r \in Reqs :
        /\ req[r].pc = "done" /\ req[r].create = "fail" /\ req[r].auth = "ok"
        /\ Len(Recs) > 0

\* the terminal statuses
Terminal == {"COMPLETED", "CANCELED"}

\* C3: a stored order whose status is COMPLETED or CANCELED keeps that status
\* in every step.
C3_TerminalIsFinal ==
    [][\A i \in 1..Len(file.recs) :
          (file.recs[i].status \in Terminal /\ i <= Len(file'.recs)) =>
              file'.recs[i].status = file.recs[i].status]_vars

\* the statuses of the stored orders, in store order
StatusesOf(f) == [i \in 1..Len(f.recs) |-> f.recs[i].status]

\* handling n on store f reaches the catch block (orders.findIndex is not a function)
notifyThrows(f, n) == n.has /\ ~readOrders(f, FALSE).arr

\* C4: in every reachable store state and for every notification n, handling
\* n a second time (at the same or a later clock reading) leaves every order
\* with the status the first handling left, and throws nothing; and what a
\* handler that has answered left in the store is what handleNotification
\* computes.
C4_NotifyIdempotentOnStatus ==
    /\ \A n \in Notifications : \A t \in now..MaxClock :
          LET once  == handleNotification(file, n, now)
              twice == handleNotification(once, n, t)
          IN  /\ StatusesOf(twice) = StatusesOf(once)
              /\ Len(twice.recs) = Len(once.recs)
              /\ ~notifyThrows(once, n)
    /\ \A h \in Hooks :
          (hook[h].pc = "done" /\ ~hook[h].err) =>
              /\ StatusesOf(file) =
                    StatusesOf(handleNotification(hook[h].before, hook[h].n, now))
              /\ Len(file.recs) = Len(hook[h].before.recs)

\* C4 witness: a handler has answered a notification that repeats the status
\* an earlier notification had already stored for the same order.
C4_Witness ==
    \E h \in Hooks :
        /\ hook[h].pc = "done" /\ hook[h].idx # 0 /\ hook[h].writes = 1
        /\ hook[h].n.status = "COMPLETED"
        /\ hook[h].before.recs[hook[h].idx].status = "COMPLETED"
        /\ file.recs[hook[h].idx].status = "COMPLETED"

\* C5: a webhook handler that has answered has answered 200, and a handler
\* that has not answered yet has sent nothing.
C5_NotifyAlwaysAnswers200 ==
    \A h \in Hooks :
        /\ hook[h].pc = "done" => hook[h].resp = 200
        /\ hook[h].pc # "done" => hook[h].resp = 0

\* C5 witness: a handler answered 200 after saveOrders threw.
C5_Witness ==
    \E h \in Hooks :
        /\ hook[h].pc = "done" /\ hook[h].resp = 200
        /\ hook[h].err /\ hook[h].writes = 1

\* C5 witness, second case: a handler answered 200 on a store that is no array.
C5_WitnessNonArray ==
    \E h \in Hooks :
        /\ hook[h].pc = "done" /\ hook[h].resp = 200
        /\ hook[h].err /\ file.kind = "nonarray"

\* notification n names the payuOrderId of a record of store f
Known(f, n) ==
    /\ f.kind = "array"
    /\ \E i \in 1..Len(f.recs) : f.recs[i].payuOrderId = n.orderId

\* C6: a handler that has answered a notification with no order record, or
\* with an orderId no stored order carries, has answered 200, has not called
\* saveOrders and has left orders.json as it was.
C6_UnknownNotificationChangesNothing ==
    \A h \in Hooks :
        (hook[h].pc = "done" /\ (~hook[h].n.has \/ ~Known(hook[h].before, hook[h].n))) =>
            /\ hook[h].resp = 200
            /\ hook[h].writes = 0
            /\ file = hook[h].before

\* C6 witness: a notification for an orderId that no stored order carries has
\* been answered while the store holds an order of another orderId.
C6_Witness ==
    \E h \in Hooks :
        /\ hook[h].pc = "done" /\ hook[h].n.has /\ hook[h].n.orderId # None
        /\ Len(hook[h].before.recs) > 0
        /\ hook[h].before.recs[1].payuOrderId # None
        /\ ~Known(hook[h].before, hook[h].n)

\* the cart is empty or missing, or the total is missing, zero or negative
NotPlaceable(k) ==
    \/ k.cart = None
    \/ Len(k.cart[1]) = 0
    \/ k.total = None
    \/ k.total[1] <= 0

\* C7: a creation request with an empty or missing cart, or with a total that
\* is not greater than 0, is answered 400 at once: no auth call, no
\* order-creation call, no store write.
C7_InvalidRequestRejected ==
    \A r \in Reqs :
        (req[r].pc \notin {"idle", "closed"} /\ NotPlaceable(req[r])) =>
            /\ req[r].pc = "done"
            /\ req[r].resp = 400
            /\ req[r].authCalls = 0
            /\ req[r].createCalls = 0
            /\ req[r].writes = 0

\* C8: every stored order whose status is COMPLETED has paidAt set.
C8_CompletedHasPaidAt ==
    \A i \in 1..Len(Recs) : Recs[i].status = "COMPLETED" => Recs[i].paidAt # None

\* C9: no two stored orders share a localOrderId.
C9_LocalOrderIdUnique ==
    \A i, j \in 1..Len(Recs) : i # j => Recs[i].localOrderId # Recs[j].localOrderId

\* C10: between a webhook handler's read of orders.json and its write no other
\* handler writes the file: while the handler stands between the two, the
\* file is what it was when the handler read it, and the handler holds the
\* thread.
C10_NotifyReadWriteAtomic ==
    \A h \in Hooks :
        hook[h].pc = "loaded" =>
            /\ file = hook[h].before
            /\ running = <<"hook", h>>
            /\ hook[h].snap = readOrders(file, FALSE)

\* C10 witness: a handler stands between its read and its write for an order
\* that an earlier notification has already updated, while a creation request
\* waits for the gateway.
C10_Witness ==
    \E h \in Hooks :
        /\ hook[h].pc = "loaded" /\ hook[h].idx # 0
        /\ hook[h].snap.recs[hook[h].idx].updatedAt # None
        /\ \E r \in Reqs : req[r].pc = "awaitCreate"

\* the order-creation POST of handler k was answered 2xx with a body that
\* lacks redirectUri or lacks orderId
MalformedCreate(k) == k.create = "ok" /\ (~k.redirectUri \/ k.payuOrderId = None)

\* C12: a creation request whose order-creation POST was answered 2xx without
\* redirectUri or without orderId is answered 500 and stores no record: its
\* handler has left orders.json as it was.
C12_MalformedCreateIsAnError ==
    \A r \in Reqs :
        (req[r].pc = "done" /\ MalformedCreate(req[r])) =>
            /\ req[r].resp = 500
            /\ req[r].writes = 0
            /\ file = req[r].before

\* C13: the body of every 500 the creation handler answers with is the generic
\* message; it never carries the text of a gateway answer.
C13_ErrorBodyIsGeneric ==
    \A r \in Reqs :
        (req[r].pc = "done" /\ req[r].resp = 500) =>
            /\ req[r].body = GenericMessage
            /\ req[r].body \notin GatewayDetail

\* C16: a creation handler issues at most one auth call and at most one
\* order-creation POST, whatever either returned.
C16_GatewayCallsNotRetried ==
    \A r \in Reqs :
        /\ req[r].authCalls <= 1
        /\ req[r].createCalls <= 1
        /\ req[r].auth # "none" => req[r].authCalls = 1
        /\ req[r].create # "none" => req[r].createCalls = 1

\* C16 witness: a handler has answered after its order-creation POST failed,
\* having issued the auth call once and the failed POST once.
C16_Witness ==
    \E r \in Reqs :
        /\ req[r].pc = "done" /\ req[r].create = "fail"
        /\ req[r].authCalls = 1 /\ req[r].createCalls = 1

\* C17: an order-creation POST has been dispatched only by a handler whose auth
\* call succeeded and returned an access_token; a handler whose auth call
\* failed or returned no token answers 500.
C17_CreateOnlyWithToken ==
    \A r \in Reqs :
        /\ req[r].createCalls > 0 => req[r].auth = "ok"
        /\ (req[r].pc = "done" /\ req[r].auth \in {"fail", "okNoToken"}) =>
              req[r].resp = 500

\* what a notification may not touch in an order
Frame(o) == [localOrderId |-> o.localOrderId, payuOrderId |-> o.payuOrderId,
             total |-> o.total, cart |-> o.cart, customer |-> o.customer,
             createdAt |-> o.createdAt]

\* C14: a webhook handler that has answered has left the store with as many
\* records as it found; every record but the matched one is as it was, and
\* the matched one keeps its localOrderId, payuOrderId, total, cart, customer
\* and createdAt.
C14_NotifyChangesOnlyStatusFields ==
    \A h \in Hooks :
        hook[h].pc = "done" =>
            /\ Len(file.recs) = Len(hook[h].before.recs)
            /\ \A i \in 1..Len(file.recs) :
                  /\ Frame(file.recs[i]) = Frame(hook[h].before.recs[i])
                  /\ i # hook[h].idx => file.recs[i] = hook[h].before.recs[i]

\* C14 witness: a handler has answered after it changed the status of one of
\* two stored orders.
C14_Witness ==
    \E h \in Hooks :
        /\ hook[h].pc = "done" /\ hook[h].idx # 0 /\ hook[h].writes = 1
        /\ Len(file.recs) = 2
        /\ file.recs[hook[h].idx].status # hook[h].before.recs[hook[h].idx].status

\* the localOrderIds of the stored orders
LocalOrderIds(f) == {f.recs[i].localOrderId : i \in 1..Len(f.recs)}

\* C15: no step removes a record: the set of stored localOrderIds only grows
\* and the store never gets shorter, also when a read or a write of
\* orders.json fails.
C15_NoRecordRemoved ==
    [][/\ LocalOrderIds(file) \subseteq LocalOrderIds(file')
       /\ Len(file.recs) <= Len(file'.recs)]_vars

\* the records of store f that the lookup's comparison takes for the order of
\* notification n
Matches(f, n) == {i \in 1..Len(f.recs) : f.recs[i].payuOrderId = n.orderId}

\* C18: a webhook handler that has answered a notification whose orderId
\* matched more than one stored order has left orders.json as it was and has
\* not called saveOrders.
C18_DuplicateMatchIsAnError ==
    \A h \in Hooks :
        (hook[h].pc = "done" /\ hook[h].n.has
            /\ Cardinality(Matches(hook[h].before, hook[h].n)) > 1) =>
            /\ hook[h].writes = 0
            /\ file = hook[h].before

\* C19: a stored order whose status is not PENDING is not PENDING after any step.
C19_NeverBackToPending ==
    [][\A i \in 1..Len(file.recs) :
          (file.recs[i].status # "PENDING" /\ i <= Len(file'.recs)) =>
              file'.recs[i].status # "PENDING"]_vars

\* C20: every stored order's updatedAt, when set, is not earlier than its
\* createdAt and not later than the clock; and in every step an order whose
\* status changes gets the clock's reading as its updatedAt, and no order's
\* updatedAt is unset or moved back.
C20_UpdatedAtFollowsClock ==
    /\ [](\A i \in 1..Len(file.recs) :
            /\ file.recs[i].createdAt # None /\ file.recs[i].createdAt[1] <= now
            /\ file.recs[i].updatedAt # None =>
                  /\ file.recs[i].updatedAt[1] >= file.recs[i].createdAt[1]
                  /\ file.recs[i].updatedAt[1] <= now)
    /\ [][\A i \in 1..Len(file.recs) :
            i <= Len(file'.recs) =>
              /\ file'.recs[i].status # file.recs[i].status =>
                    file'.recs[i].updatedAt = Some(now)
              /\ file.recs[i].updatedAt # None =>
                    /\ file'.recs[i].updatedAt # None
                    /\ file'.recs[i].updatedAt[1] >= file.recs[i].updatedAt[1]]_vars

\* C20 witness: an order created at clock reading 0 whose status a
\* notification changed at reading 1, after an earlier notification had
\* stamped it at reading 0.
C20_Witness ==
    \E h \in Hooks :
        /\ hook[h].pc = "done" /\ hook[h].idx # 0 /\ hook[h].writes = 1
        /\ hook[h].before.recs[hook[h].idx].updatedAt = Some(0)
        /\ hook[h].before.recs[hook[h].idx].status # hook[h].n.status
        /\ file.recs[hook[h].idx].createdAt = Some(0)
        /\ file.recs[hook[h].idx].updatedAt = Some(1)

\* the integer nearest to d * 100, for a d that is no tie: sign and magnitude
NearestMinor(d) ==
    LET k == (d.milli + 5) \div 10 IN IF d.neg THEN -k ELSE k

\* the two integers nearest to d * 100 when d ends in 5 thousandths
TieNeighbours(d) ==
    LET k == d.milli \div 10
    IN  IF d.neg THEN {-k, -(k + 1)} ELSE {k, k + 1}

\* the minor-unit string a built order body may carry for the amount d
RoundedToNearest(d, amount) ==
    IF d.milli % 10 = 5
    THEN \E n \in TieNeighbours(d) : amount = String(n)
    ELSE amount = String(NearestMinor(d))

\* C11: in a built order body totalAmount is the decimal string of the
\* integer nearest to total * 100: for a total of at most two decimal places
\* that is total * 100 exactly (32 gives "3200", 32.50 "3250", 19.99 "1999"),
\* for a total ending in 5 thousandths it is one of the two integers half a
\* unit away; and unitPrice is the same function of the item's price.
C11_AmountInMinorUnits ==
    orderBody.totalAmount # None =>
        LET d == orderBody.total[1]
            p == orderBody.price[1]
        IN  /\ RoundedToNearest(d, orderBody.totalAmount[1])
            /\ RoundedToNearest(p, orderBody.unitPrice[1])
            /\ d.milli % 10 = 0 =>
                  orderBody.totalAmount[1] =
                      String((IF d.neg THEN -1 ELSE 1) * (d.milli \div 10))
            /\ d = [neg |-> FALSE, milli |-> 32000] =>
                  orderBody.totalAmount[1] = <<"3", "2", "0", "0">>
            /\ d = [neg |-> FALSE, milli |-> 32500] =>
                  orderBody.totalAmount[1] = <<"3", "2", "5", "0">>
            /\ d = [neg |-> FALSE, milli |-> 19990] =>
                  orderBody.totalAmount[1] = <<"1", "9", "9", "9">>

\* C11 witness: the order body built for total 1.005, whose product with 100
\* is a double below 100.5, carries "100".
C11_Witness ==
    /\ orderBody.total = Some([neg |-> FALSE, milli |-> 1005])
    /\ orderBody.totalAmount = Some(<<"1", "0", "0">>)
    /\ orderBody.unitPrice = Some(<<"1", "0", "0">>)

\* C11 witness, second case: the order body built for total 19.99, whose
\* product with 100 is a double below 1999, carries "1999".
C11_WitnessInexact ==
    /\ orderBody.total = Some([neg |-> FALSE, milli |-> 19990])
    /\ orderBody.totalAmount = Some(<<"1", "9", "9", "9">>)
    /\ LET x == Times100(ParseNumber(orderBody.total[1]))
       IN  ToInt(Shr(x.man, -x.exp).q) = 1998 /\ Shr(x.man, -x.exp).lost

\* the record a creation handler that has just answered 200 appended
Stored(r) == file.recs[Len(file.recs)]

\* handler r has answered 200 after it stored its record
Succeeded(r) == req[r].pc = "done" /\ req[r].resp = Created

\* C21: every stored order carries an amountMinorUnits, and the record a
\* successful creation has just stored carries the totalAmount that was sent
\* to the gateway for it.
C21_AmountStoredOnce ==
    /\ \A i \in 1..Len(Recs) : Recs[i].amountMinorUnits # None
    /\ \A r \in Reqs :
          Succeeded(r) =>
              Stored(r).amountMinorUnits = Some(req[r].sent[1].body.totalAmount)

\* C22: when a creation handler has answered 200, the externalOrderId it
\* sent to the gateway, the localOrderId of the record it stored and the
\* localOrderId in its answer are one value, and the payuOrderId in its
\* answer is the stored one and the one the gateway returned.
C22_OneLocalIdEndToEnd ==
    \A r \in Reqs :
        Succeeded(r) =>
            /\ req[r].sent # None /\ req[r].answer # None
            /\ req[r].sent[1].body.externalOrderId # None
            /\ Stored(r).localOrderId = req[r].sent[1].body.externalOrderId
            /\ req[r].answer[1].localOrderId = req[r].sent[1].body.externalOrderId
            /\ req[r].answer[1].payuOrderId = Stored(r).payuOrderId
            /\ Stored(r).payuOrderId = req[r].payuOrderId

\* C22 witness: a handler has answered 200 with a gateway orderId after the
\* clock moved on between its order POST and its store write.
C22_Witness ==
    \E r \in Reqs :
        /\ Succeeded(r) /\ req[r].payuOrderId # None
        /\ req[r].localOrderId = Some(0) /\ now = 1

C26_NotificationNotLostToRace ==
    \A h \in Hooks :
        (/\ hook[h].pc = "done"
         /\ hook[h].n.has /\ hook[h].n.status = "COMPLETED"
         /\ hook[h].n.orderId = Some(nextGw)
         /\ \E r \in Reqs : req[r].pc = "awaitCreate" /\ ValidRequest(req[r])
                                /\ req[r].auth = "ok") =>
            \/ hook[h].resp # 200
            \/ file # hook[h].before

\* C27: a webhook handler that has answered has changed no stored order that
\* has no payuOrderId, and a notification without orderId has matched nothing
\* and changed nothing.
C27_AbsentGatewayIdNeverMatched ==
    \A h \in Hooks :
        hook[h].pc = "done" =>
            /\ \A i \in 1..Len(hook[h].before.recs) :
                  (hook[h].before.recs[i].payuOrderId = None /\ i <= Len(file.recs)) =>
                      file.recs[i] = hook[h].before.recs[i]
            /\ (hook[h].n.has /\ hook[h].n.orderId = None) =>
                  /\ hook[h].idx = 0
                  /\ file = hook[h].before

\* C28: whenever a handler stands between its store read and its store write,
\* the snapshot it holds is the store as it is now and the handler holds the
\* thread; and no step drops a stored order, and no step but a webhook
\* handler's own write changes a stored order.
C28_NoWriteFromStaleSnapshot ==
    /\ [](/\ \A r \in Reqs :
              req[r].pc = "persist" =>
                  /\ req[r].snap = readOrders(file, FALSE)
                  /\ running = <<"req", r>>
          /\ \A h \in Hooks :
              hook[h].pc = "loaded" =>
                  /\ hook[h].snap = readOrders(file, FALSE)
                  /\ running = <<"hook", h>>)
    /\ [][/\ Len(file.recs) <= Len(file'.recs)
          /\ \A i \in 1..Len(file.recs) :
                file'.recs[i] # file.recs[i] =>
                    \E h \in Hooks : /\ hook[h].pc = "loaded" /\ hook'[h].pc = "done"
                                     /\ hook[h].idx = i]_vars

\* C28 witness: a creation handler stands between its read and its write of
\* a store that holds an order whose status a webhook has written.
C28_Witness ==
    \E r \in Reqs :
        /\ req[r].pc = "persist" /\ running = <<"req", r>>
        /\ Len(file.recs) > 0 /\ file.recs[1].updatedAt # None
        /\ file.recs[1].status = "COMPLETED"

\* handler r waits for the gateway
Awaiting(r) == req[r].pc \in {"awaitToken", "awaitCreate"}

\* C25: a creation handler that waits for the gateway eventually answers its
\* request, also when the gateway never answers.
C25_EveryRequestAnswered ==
    \A r \in Reqs : Awaiting(r) ~> (req[r].pc = "done")

\* a text that is empty or holds nothing but spaces
Blank(t) == \A i \in 1..Len(t) : t[i] = " "

\* a customer field that is missing or blank
BlankField(x) == x = None \/ Blank(x[1])

\* C24: in a built order body buyer.email, buyer.firstName and buyer.lastName
\* are not blank, and a blank customer email is replaced by the placeholder
\* email, a blank name by both default names.
C24_BuyerNeverBlank ==
    orderBody.buyer # None =>
        LET b == orderBody.buyer[1]
            c == orderBody.customer
        IN  /\ ~Blank(b.email) /\ ~Blank(b.firstName) /\ ~Blank(b.lastName)
            /\ BlankField(EmailOf(c)) => b.email = PlaceholderEmail
            /\ BlankField(NameOf(c)) =>
                  b.firstName = DefaultFirstName /\ b.lastName = DefaultLastName

\* an order of the sandbox API is 'paid' exactly when its payment.paidAt is set
PaidIffPaidAt ==
    \A i \in 1..Len(sandbox.orders) :
        (sandbox.orders[i].status = "paid") <=> (sandbox.orders[i].payment.paidAt # None)

\* every step that adds an order adds it 'paid' when sandbox payments are
\* enabled and 'pending' otherwise, and no step removes an order
CreatedByFlag ==
    [][/\ Len(sandbox'.orders) >= Len(sandbox.orders)
       /\ Len(sandbox'.orders) > Len(sandbox.orders) =>
             sandbox'.orders[Len(sandbox'.orders)].status =
                 (IF paidBySandbox(sandbox.env) THEN "paid" ELSE "pending")]_vars

\* a confirmation that has answered 200 found its order and left it 'paid'
ConfirmedIsPaid ==
    \A c \in Confirms :
        (sandbox.conf[c].pc = "done" /\ sandbox.conf[c].resp = 200) =>
            /\ sandbox.conf[c].found
            /\ sandbox.orders[sandbox.conf[c].id.n].status = "paid"

\* every step in which a confirmation answers anything but 200 leaves every
\* order as it was
RefusedChangesNothing ==
    [][\A c \in Confirms :
          (sandbox.conf[c].pc # "done" /\ sandbox'.conf[c].pc = "done"
              /\ sandbox'.conf[c].resp # 200) =>
              sandbox'.orders = sandbox.orders]_vars

\* C29 as stated: paid exactly with paidAt, and every confirmation whose id
\* names no order has answered 404.
C29_UnknownIdAnswers404 ==
    /\ PaidIffPaidAt
    /\ ConfirmedIsPaid
    /\ \A c \in Confirms :
          (sandbox.conf[c].pc = "done" /\ ~sandbox.conf[c].found) =>
              sandbox.conf[c].resp = 404

\* What holds of the sandbox API: an order is 'paid' exactly when its payment.paidAt is set; an
\* order is created 'paid' when sandbox payments are enabled and 'pending'
\* otherwise; a confirmation answered 200 has left its order 'paid'; a
\* confirmation whose id names no order has answered 404 when the id is a
\* well-formed ObjectId and 500 when it is not; and a confirmation that
\* answers anything but 200 changes no order.
C29_PaidExactlyWithPaidAt ==
    /\ [](/\ PaidIffPaidAt
          /\ ConfirmedIsPaid
          /\ \A c \in Confirms :
                (sandbox.conf[c].pc = "done" /\ ~sandbox.conf[c].found) =>
                    sandbox.conf[c].resp = (IF sandbox.conf[c].id.wellFormed THEN 404 ELSE 500))
    /\ CreatedByFlag
    /\ RefusedChangesNothing

\* The case above happens: with sandbox payments disabled an order was created 'pending'
\* and a confirmation has made it 'paid' at a later clock reading, while a
\* second confirmation, for an id that names no order, was answered 404.
C29_Witness ==
    /\ ~paidBySandbox(sandbox.env)
    /\ \E c, b \in Confirms :
          /\ sandbox.conf[c].pc = "done" /\ sandbox.conf[c].resp = 200
          /\ sandbox.orders[sandbox.conf[c].id.n].status = "paid"
          /\ sandbox.orders[sandbox.conf[c].id.n].payment.paidAt = Some(1)
          /\ sandbox.conf[b].pc = "done" /\ sandbox.conf[b].resp = 404

====
